---- MODULE Spec2Model ----
(***************************************************************************)
(* Alias File Name History: the rename-debouncing and alias-merging core.  *)
(*                                                                         *)
(* Strings are sequences of one-character strings, so that splitting,      *)
(* extension stripping, lower-casing, prefix tests and pattern matching    *)
(* are computed the way the TypeScript computes them.                      *)
(*                                                                         *)
(* Spec is the stable-name revision of handleRename (src/unnamed/part_000) *)
(* together with AliasProcessor.processAliases.                            *)
(***************************************************************************)
EXTENDS Integers, Sequences, FiniteSets, TLC

VARIABLES
  loaded,        \* the plugin's rename handler is registered (onload .. onunload)
  settings,      \* this.settings, shared by the plugin and the AliasProcessor
  vault,         \* host file tree: file identity -> current path
  fm,            \* host metadata: file identity -> value of the "aliases" key
  debounceMap,   \* this.debounceMap: path -> {queue, timeoutId, currentPath}
  timers,        \* armed window.setTimeout callbacks: timeoutId -> closure + time left
  inflight,      \* processFrontMatter calls awaiting the host's read of the file
  renames,       \* number of rename events so far
  edits,         \* number of settings edits so far
  stableFor,     \* history: seconds since each file's path last changed (capped)
  lastAccepted,  \* history: each file's most recent accepted rename
  formerNames,   \* history: the basenames and parent-folder names each file has left
  last           \* history: what the most recent step other than Tick did

vars == <<loaded, settings, vault, fm, debounceMap, timers, inflight,
          renames, edits, stableFor, lastAccepted, formerNames, last>>

----------------------------------------------------------------------------
(* Bounds *)

\* the timeoutSeconds setting explored (the slider allows 1..20)
DebounceSeconds == 2

\* rename events in one behaviour
MaxRenames == 4

\* edits of the ignore patterns in one behaviour
MaxEdits == 1

\* rename events in one behaviour of the specifications that vary the
\* folder settings or the metadata
ShortRun == 2

\* rename events in one behaviour of the specification with the odd paths
EdgeRun == 3

----------------------------------------------------------------------------
(* Strings *)

s_A   == <<"A">>
s_md  == <<"m", "d">>

\* String.prototype.toLowerCase on the characters the model uses
LowerChar(c) == IF c = "A" THEN "a" ELSE IF c = "B" THEN "b" ELSE c

toLowerCase(s) == [i \in 1..Len(s) |-> LowerChar(s[i])]

\* String.prototype.startsWith
startsWith(s, p) == Len(p) <= Len(s) /\ SubSeq(s, 1, Len(p)) = p

\* String.prototype.endsWith
endsWith(s, p) == Len(p) <= Len(s) /\ SubSeq(s, Len(s) - Len(p) + 1, Len(s)) = p

\* String.prototype.includes
includes(s, sub) ==
  \E i \in 1..(Len(s) - Len(sub) + 1) : SubSeq(s, i, i + Len(sub) - 1) = sub

\* String.prototype.trim (blanks only)
RECURSIVE trim(_)
trim(s) ==
  IF s = <<>> THEN s
  ELSE IF Head(s) = " " THEN trim(Tail(s))
  ELSE IF s[Len(s)] = " " THEN trim(SubSeq(s, 1, Len(s) - 1))
  ELSE s

\* index of the last occurrence of character c in s, 0 when there is none
lastIndexOf(s, c) ==
  LET hits == {i \in 1..Len(s) : s[i] = c}
  IN  IF hits = {} THEN 0 ELSE CHOOSE i \in hits : \A j \in hits : j <= i

\* path.split('/').pop() : the text after the last slash
lastSegment(path) == SubSeq(path, lastIndexOf(path, "/") + 1, Len(path))

\* path.split('/') without its last element, joined again
withoutLastSegment(path) ==
  LET k == lastIndexOf(path, "/")
  IN  IF k = 0 THEN <<>> ELSE SubSeq(path, 1, k - 1)

----------------------------------------------------------------------------
(* src/src/utils/path-utils.ts *)

\* name.replace(/\.[^/.]+$/, '') : drop a final ".ext" with a non-empty ext
stripExtension(name) ==
  LET k == lastIndexOf(name, ".")
  IN  IF k = 0 \/ k = Len(name) THEN name ELSE SubSeq(name, 1, k - 1)

getBasename(path) == stripExtension(lastSegment(path))

\* parts.pop(); return parts.pop() || ''
getImmediateParentName(path) ==
  IF lastIndexOf(path, "/") = 0 THEN <<>>
  ELSE lastSegment(withoutLastSegment(path))

----------------------------------------------------------------------------
(* The host's TFile: basename and extension of a file at a path *)

TFileBasename(path) ==
  LET name == lastSegment(path)
      k    == lastIndexOf(name, ".")
  IN  IF k = 0 \/ k = 1 \/ k = Len(name) THEN name ELSE SubSeq(name, 1, k - 1)

TFileExtension(path) ==
  LET name == lastSegment(path)
      k    == lastIndexOf(name, ".")
  IN  IF k = 0 \/ k = 1 \/ k = Len(name) THEN <<>>
      ELSE toLowerCase(SubSeq(name, k + 1, Len(name)))

----------------------------------------------------------------------------
(* Regular expressions: the patterns used are an optional "^", literal     *)
(* characters and an optional "$"; a pattern with an unclosed "[" does not *)
(* compile.                                                                *)

Re_us   == <<"^", "_">>          \* ^_   (a default pattern)
Re_a    == <<"^", "a", "$">>     \* ^a$
Re_bad  == <<"[">>               \* new RegExp("[") throws

chars(s) == {s[i] : i \in 1..Len(s)}

\* new RegExp(p) does not throw
RegExpCompiles(p) == ~("[" \in chars(p) /\ "]" \notin chars(p))

\* re.test(s)
RegExpTest(p, s) ==
  LET anchoredL == p # <<>> /\ Head(p) = "^"
      p1        == IF anchoredL THEN Tail(p) ELSE p
      anchoredR == p1 # <<>> /\ p1[Len(p1)] = "$"
      lit       == IF anchoredR THEN SubSeq(p1, 1, Len(p1) - 1) ELSE p1
  IN  IF anchoredL /\ anchoredR THEN s = lit
      ELSE IF anchoredL THEN startsWith(s, lit)
      ELSE IF anchoredR THEN endsWith(s, lit)
      ELSE includes(s, lit)

\* a variant in which the first pattern that fails to compile ends the
\* loop: only the patterns before it are kept
compileRegexes_abortOnError(patterns) ==
  {patterns[i] : i \in {j \in 1..Len(patterns) :
                          \A k \in 1..j : RegExpCompiles(patterns[k])}}

\* the try/catch loop that fills `regexes`: the patterns that compile
compileRegexes(patterns) ==
  {patterns[i] : i \in {j \in 1..Len(patterns) : RegExpCompiles(patterns[j])}}

\* regexes.some(re => re.test(s))
matchesAny(regexes, s) == \E re \in regexes : RegExpTest(re, s)

----------------------------------------------------------------------------
(* isPathInFolder (src/unnamed/part_000 and src/src/main.ts) *)

Tok_vault == <<"{", "v", "a", "u", "l", "t", "}">>
Tok_root  == <<"{", "r", "o", "o", "t", "}">>

\* folder.replace(/\{vault\}|\{root\}/g, '')
RECURSIVE removeTokens(_)
removeTokens(s) ==
  IF s = <<>> THEN s
  ELSE IF startsWith(s, Tok_vault) THEN removeTokens(SubSeq(s, Len(Tok_vault) + 1, Len(s)))
  ELSE IF startsWith(s, Tok_root) THEN removeTokens(SubSeq(s, Len(Tok_root) + 1, Len(s)))
  ELSE <<Head(s)>> \o removeTokens(Tail(s))

\* a variant without the root-wildcard branch: literal matching only
isPathInFolder_literal(path, folder) ==
  startsWith(path, folder \o <<"/">>) \/ path = folder

isPathInFolder(path, folder) ==
  IF includes(folder, Tok_vault) \/ includes(folder, Tok_root)
  THEN LET resolvedFolder == removeTokens(folder)
       IN  IF resolvedFolder = <<>> \/ resolvedFolder = <<"/">>
           THEN ~includes(path, <<"/">>)
           ELSE startsWith(path, resolvedFolder \o <<"/">>) \/ path = resolvedFolder
  ELSE startsWith(path, folder \o <<"/">>) \/ path = folder

----------------------------------------------------------------------------
(* The vault and the configurations explored *)

P_a   == <<"a", ".", "m", "d">>
P_b   == <<"b", ".", "m", "d">>
P_B   == <<"B", ".", "m", "d">>
P_u   == <<"_", ".", "m", "d">>

\* the paths the files of Spec are renamed among
Paths == {P_a, P_b, P_B, P_u}

Files == {"f1", "f2"}

NoFile == "none"

\* the value of the "aliases" key of a file's metadata
Absent == [kind |-> "absent", items |-> <<>>]
Scalar == [kind |-> "scalar", items |-> <<>>]
List(items) == [kind |-> "list", items |-> items]

\* a variant that takes every present value for a list
isArray_present(v) == v.kind # "absent"

\* Array.isArray(frontmatter.aliases) (alias-processor.ts line 47)
isArray(v) == v.kind = "list"

\* an element of an aliases list that is not a string (the YAML number 7)
Num7 == <<"number:7">>

isString(v) == v # Num7

\* the metadata the files start with
InitialMetadata ==
  { [f \in Files |-> IF f = "f1" THEN List(<<s_A>>) ELSE Absent],
    [f \in Files |-> IF f = "f1" THEN Absent ELSE Scalar] }

\* the ignore patterns at start, and the lists an edit can set
InitialIgnore == <<Re_us>>
IgnoreChoices == {<<Re_us>>, <<Re_bad, Re_us, Re_a>>}

\* fileExtensions of DEFAULT_SETTINGS
DefaultExtensions == <<s_md>>

\* the configurations of Spec: no folder lists, folder tracking off
Configs ==
  [ ignoreRegexes         : {InitialIgnore},
    timeoutSeconds        : {DebounceSeconds},
    caseSensitive         : BOOLEAN,
    autoCreateFrontmatter : BOOLEAN,
    includeFolders        : {<<>>},
    excludeFolders        : {<<>>},
    fileExtensions        : {DefaultExtensions},
    trackFolderRenames    : {<<>>} ]

----------------------------------------------------------------------------
(* handleRename: classification and candidate selection                    *)
(* (src/unnamed/part_000 lines 55-121)                                     *)

\* `null`, the initial value of toQueue
Null == <<"null">>

\* a variant that compares the basenames exactly whatever the case policy
isNameChange_exact(oldPath, newPath) ==
  getBasename(oldPath) # TFileBasename(newPath)

isNameChange(oldPath, newPath) ==
  LET oldBasename == getBasename(oldPath)
      newBasename == TFileBasename(newPath)
  IN  IF settings.caseSensitive
      THEN oldBasename # newBasename
      ELSE toLowerCase(oldBasename) # toLowerCase(newBasename)

\* a variant that looks at the parent names only
isFolderChange_parentOnly(oldPath, newPath) ==
  getImmediateParentName(oldPath) # getImmediateParentName(newPath)

isFolderChange(oldPath, newPath) ==
  /\ getImmediateParentName(oldPath) # getImmediateParentName(newPath)
  /\ ~isNameChange(oldPath, newPath)

\* a variant that skips the exclude list
inScope_includeOnly(path) ==
  \/ Len(settings.includeFolders) = 0
  \/ \E i \in 1..Len(settings.includeFolders) :
       isPathInFolder(path, settings.includeFolders[i])

\* the include/exclude test applied to name changes
inScope(path) ==
  /\ \/ Len(settings.includeFolders) = 0
     \/ \E i \in 1..Len(settings.includeFolders) :
          isPathInFolder(path, settings.includeFolders[i])
  /\ ~\E i \in 1..Len(settings.excludeFolders) :
          isPathInFolder(path, settings.excludeFolders[i])

\* a variant without the file-name gate of lines 102-110
folderCandidate_noNameGate(oldPath, newPath) ==
  LET regexes                == compileRegexes(settings.ignoreRegexes)
      oldImmediateParentName == getImmediateParentName(oldPath)
      newImmediateParentName == getImmediateParentName(newPath)
  IN  IF settings.trackFolderRenames = <<>> \/ trim(settings.trackFolderRenames) = <<>>
      THEN Null
      ELSE IF oldImmediateParentName = <<>> \/ newImmediateParentName = <<>> THEN Null
      ELSE IF matchesAny(regexes, oldImmediateParentName)
              \/ matchesAny(regexes, newImmediateParentName) THEN Null
      ELSE oldImmediateParentName

\* the folder-change branch: the candidate, or Null when a gate rejects it
folderCandidate(oldPath, newPath) ==
  LET regexes                == compileRegexes(settings.ignoreRegexes)
      oldImmediateParentName == getImmediateParentName(oldPath)
      newImmediateParentName == getImmediateParentName(newPath)
      currentBasename        == TFileBasename(newPath)
      matchesFilename ==
        IF settings.caseSensitive
        THEN currentBasename = settings.trackFolderRenames
        ELSE toLowerCase(currentBasename) = toLowerCase(settings.trackFolderRenames)
  IN  IF settings.trackFolderRenames = <<>> \/ trim(settings.trackFolderRenames) = <<>>
      THEN Null
      ELSE IF ~matchesFilename THEN Null
      ELSE IF oldImmediateParentName = <<>> \/ newImmediateParentName = <<>> THEN Null
      ELSE IF matchesAny(regexes, oldImmediateParentName)
              \/ matchesAny(regexes, newImmediateParentName) THEN Null
      ELSE oldImmediateParentName

\* a variant that applies the include/exclude test to folder changes too
toQueue_scopeAll(oldPath, newPath) ==
  LET regexes     == compileRegexes(settings.ignoreRegexes)
      oldBasename == getBasename(oldPath)
      newBasename == TFileBasename(newPath)
  IN  IF \A i \in 1..Len(settings.fileExtensions) :
            settings.fileExtensions[i] # TFileExtension(newPath)
      THEN Null
      ELSE IF ~isNameChange(oldPath, newPath) /\ ~isFolderChange(oldPath, newPath)
      THEN Null
      ELSE IF ~inScope(newPath)
      THEN Null
      ELSE IF isNameChange(oldPath, newPath)
      THEN IF matchesAny(regexes, oldBasename) \/ matchesAny(regexes, newBasename)
           THEN Null
           ELSE oldBasename
      ELSE folderCandidate(oldPath, newPath)

\* the value of toQueue at line 121, Null for every early return before it
toQueue(oldPath, newPath) ==
  LET regexes     == compileRegexes(settings.ignoreRegexes)
      oldBasename == getBasename(oldPath)
      newBasename == TFileBasename(newPath)
  IN  IF \A i \in 1..Len(settings.fileExtensions) :
            settings.fileExtensions[i] # TFileExtension(newPath)
      THEN Null
      ELSE IF ~isNameChange(oldPath, newPath) /\ ~isFolderChange(oldPath, newPath)
      THEN Null
      ELSE IF isNameChange(oldPath, newPath) /\ ~inScope(newPath)
      THEN Null
      ELSE IF isNameChange(oldPath, newPath)
      THEN IF matchesAny(regexes, oldBasename) \/ matchesAny(regexes, newBasename)
           THEN Null
           ELSE oldBasename
      ELSE folderCandidate(oldPath, newPath)

\* a variant that stops on null only
accepted_nullOnly(oldPath, newPath) == toQueue(oldPath, newPath) # Null

\* if (!toQueue) return : null and the empty string both stop the handler
accepted(oldPath, newPath) ==
  toQueue(oldPath, newPath) # Null /\ toQueue(oldPath, newPath) # <<>>

----------------------------------------------------------------------------
(* handleRename: the debounce map (src/unnamed/part_000 lines 123-158)     *)

\* Map.prototype.delete
mapDelete(m, k) == [x \in DOMAIN m \ {k} |-> m[x]]

\* Map.prototype.set
mapSet(m, k, v) == [x \in DOMAIN m \cup {k} |-> IF x = k THEN v ELSE m[x]]

\* window.clearTimeout: a handle that is not armed is ignored
clearTimeout(tm, id) == [x \in DOMAIN tm \ {id} |-> tm[x]]

\* the handle window.setTimeout returns: a positive number no armed timer
\* and no stored entry carries
freshTimeoutId(tm, m) ==
  LET used == DOMAIN tm \cup {m[k].timeoutId : k \in DOMAIN m}
  IN  CHOOSE n \in 1..(Cardinality(used) + 1) : n \notin used

\* a variant that looks under oldPath only
existingKey_oldPathOnly(oldPath, newPath) ==
  IF oldPath \in DOMAIN debounceMap THEN oldPath ELSE Null

\* lines 125-133: the entry found under newFile.path, else under oldPath
existingKey(oldPath, newPath) ==
  IF newPath \in DOMAIN debounceMap THEN newPath
  ELSE IF oldPath \in DOMAIN debounceMap THEN oldPath
  ELSE Null

\* line 142: the candidate the new entry carries
queuedName(oldPath, newPath) ==
  LET k == existingKey(oldPath, newPath)
  IN  IF k # Null THEN Head(debounceMap[k].queue) ELSE toQueue(oldPath, newPath)

\* history: the armed timer that an earlier accepted rename of this file to
\* oldPath left behind, if any (the rename being handled continues its chain)
chainTimer(f, oldPath) ==
  {id \in DOMAIN timers : timers[id].file = f /\ timers[id].currentPath = oldPath}

\* a variant in which a rejected event drops the entry stored under oldPath
\* and cancels its timer
handleRename_dropOnReject(f, newPath, oldPath) ==
  IF ~accepted(oldPath, newPath)
  THEN /\ debounceMap' = mapDelete(debounceMap, oldPath)
       /\ timers' = IF oldPath \in DOMAIN debounceMap
                    THEN clearTimeout(timers, debounceMap[oldPath].timeoutId)
                    ELSE timers
       /\ UNCHANGED lastAccepted
       /\ last' = [op |-> "rename", file |-> f, path |-> oldPath,
                   queue |-> <<>>, toAdd |-> <<>>]
  ELSE LET k       == existingKey(oldPath, newPath)
           map1    == IF k = oldPath /\ k # newPath
                      THEN mapDelete(debounceMap, oldPath) ELSE debounceMap
           timers1 == IF k # Null /\ debounceMap[k].timeoutId # 0
                      THEN clearTimeout(timers, debounceMap[k].timeoutId)
                      ELSE timers
           name    == queuedName(oldPath, newPath)
           id      == freshTimeoutId(timers1, map1)
           entry   == [queue |-> <<name>>, timeoutId |-> id, currentPath |-> newPath]
           prev    == chainTimer(f, oldPath)
           timer   == [remaining   |-> settings.timeoutSeconds,
                       queue       |-> entry.queue,
                       currentPath |-> entry.currentPath,
                       file        |-> f,
                       first       |-> IF prev = {}
                                       THEN toQueue(oldPath, newPath)
                                       ELSE timers[CHOOSE x \in prev : TRUE].first,
                       chain       |-> IF prev = {} THEN 1 ELSE 2]
       IN  /\ timers' = [x \in DOMAIN timers1 \cup {id} |->
                           IF x = id THEN timer ELSE timers1[x]]
           /\ debounceMap' = mapSet(map1, newPath, entry)
           /\ lastAccepted' = [lastAccepted EXCEPT ![f] = [old |-> oldPath, new |-> newPath]]
           /\ last' = [op |-> "rename", file |-> f, path |-> oldPath,
                       queue |-> <<toQueue(oldPath, newPath)>>, toAdd |-> <<>>]

\* lines 55-158: the handler of the rename event
handleRename(f, newPath, oldPath) ==
  IF ~accepted(oldPath, newPath)
  THEN /\ UNCHANGED <<debounceMap, timers, lastAccepted>>
       /\ last' = [op |-> "rename", file |-> f, path |-> oldPath,
                   queue |-> <<>>, toAdd |-> <<>>]
  ELSE LET k       == existingKey(oldPath, newPath)
           map1    == IF k = oldPath /\ k # newPath
                      THEN mapDelete(debounceMap, oldPath) ELSE debounceMap
           timers1 == IF k # Null /\ debounceMap[k].timeoutId # 0
                      THEN clearTimeout(timers, debounceMap[k].timeoutId)
                      ELSE timers
           name    == queuedName(oldPath, newPath)
           id      == freshTimeoutId(timers1, map1)
           entry   == [queue |-> <<name>>, timeoutId |-> id, currentPath |-> newPath]
           prev    == chainTimer(f, oldPath)
           timer   == [remaining   |-> settings.timeoutSeconds,
                       queue       |-> entry.queue,
                       currentPath |-> entry.currentPath,
                       file        |-> f,
                       first       |-> IF prev = {}
                                       THEN toQueue(oldPath, newPath)
                                       ELSE timers[CHOOSE x \in prev : TRUE].first,
                       chain       |-> IF prev = {} THEN 1 ELSE 2]
       IN  /\ timers' = [x \in DOMAIN timers1 \cup {id} |->
                           IF x = id THEN timer ELSE timers1[x]]
           /\ debounceMap' = mapSet(map1, newPath, entry)
           /\ lastAccepted' = [lastAccepted EXCEPT ![f] = [old |-> oldPath, new |-> newPath]]
           /\ last' = [op |-> "rename", file |-> f, path |-> oldPath,
                       queue |-> <<toQueue(oldPath, newPath)>>, toAdd |-> <<>>]

----------------------------------------------------------------------------
(* handleRename of the accumulate-all revision (src/src/main.ts)           *)

\* lines 106-116: folder tracking is a plain toggle
folderCandidateAccum(oldPath, newPath) ==
  LET regexes                == compileRegexes(settings.ignoreRegexes)
      oldImmediateParentName == getImmediateParentName(oldPath)
      newImmediateParentName == getImmediateParentName(newPath)
  IN  IF ~settings.trackFolderRenames THEN Null
      ELSE IF oldImmediateParentName = <<>> \/ newImmediateParentName = <<>> THEN Null
      ELSE IF matchesAny(regexes, oldImmediateParentName)
              \/ matchesAny(regexes, newImmediateParentName) THEN Null
      ELSE oldImmediateParentName

\* lines 57-118: the value of toQueue at line 118
toQueueAccum(oldPath, newPath) ==
  LET regexes     == compileRegexes(settings.ignoreRegexes)
      oldBasename == getBasename(oldPath)
      newBasename == TFileBasename(newPath)
  IN  IF \A i \in 1..Len(settings.fileExtensions) :
            settings.fileExtensions[i] # TFileExtension(newPath)
      THEN Null
      ELSE IF ~isNameChange(oldPath, newPath) /\ ~isFolderChange(oldPath, newPath)
      THEN Null
      ELSE IF isNameChange(oldPath, newPath) /\ ~inScope(newPath)
      THEN Null
      ELSE IF isNameChange(oldPath, newPath)
      THEN IF matchesAny(regexes, oldBasename) \/ matchesAny(regexes, newBasename)
           THEN Null
           ELSE oldBasename
      ELSE folderCandidateAccum(oldPath, newPath)

acceptedAccum(oldPath, newPath) ==
  toQueueAccum(oldPath, newPath) # Null /\ toQueueAccum(oldPath, newPath) # <<>>

\* Set.prototype.add on a set kept in insertion order
setAdd(queue, name) ==
  IF \E i \in 1..Len(queue) : queue[i] = name THEN queue ELSE Append(queue, name)

\* lines 120-141: the entry under oldPath is reused and moved to newPath
handleRenameAccum(f, newPath, oldPath) ==
  IF ~acceptedAccum(oldPath, newPath)
  THEN /\ UNCHANGED <<debounceMap, timers, lastAccepted>>
       /\ last' = [op |-> "rename", file |-> f, path |-> oldPath,
                   queue |-> <<>>, toAdd |-> <<>>]
  ELSE LET found   == oldPath \in DOMAIN debounceMap
           map1    == IF found THEN mapDelete(debounceMap, oldPath) ELSE debounceMap
           queue   == setAdd(IF found THEN debounceMap[oldPath].queue ELSE <<>>,
                             toQueueAccum(oldPath, newPath))
           timers1 == IF found /\ debounceMap[oldPath].timeoutId # 0
                      THEN clearTimeout(timers, debounceMap[oldPath].timeoutId)
                      ELSE timers
           id      == freshTimeoutId(timers1, map1)
           entry   == [queue |-> queue, timeoutId |-> id, currentPath |-> newPath]
           prev    == chainTimer(f, oldPath)
           timer   == [remaining   |-> settings.timeoutSeconds,
                       queue       |-> entry.queue,
                       currentPath |-> entry.currentPath,
                       file        |-> f,
                       first       |-> IF prev = {}
                                       THEN toQueueAccum(oldPath, newPath)
                                       ELSE timers[CHOOSE x \in prev : TRUE].first,
                       chain       |-> IF prev = {} THEN 1 ELSE 2,
                       all         |-> setAdd(IF prev = {} THEN <<>>
                                              ELSE timers[CHOOSE x \in prev : TRUE].all,
                                              toQueueAccum(oldPath, newPath))]
       IN  /\ timers' = [x \in DOMAIN timers1 \cup {id} |->
                           IF x = id THEN timer ELSE timers1[x]]
           /\ debounceMap' = mapSet(map1, newPath, entry)
           /\ lastAccepted' = [lastAccepted EXCEPT ![f] = [old |-> oldPath, new |-> newPath]]
           /\ last' = [op |-> "rename", file |-> f, path |-> oldPath,
                       queue |-> <<toQueueAccum(oldPath, newPath)>>, toAdd |-> <<>>]

----------------------------------------------------------------------------
(* The rename event *)

\* the host renames file f and emits rename(newFile, oldPath) to the
\* registered handler
Rename(f, newPath) ==
  /\ renames < MaxRenames
  /\ renames' = renames + 1
  /\ newPath \notin {vault[g] : g \in Files}
  /\ vault' = [vault EXCEPT ![f] = newPath]
  /\ stableFor' = [stableFor EXCEPT ![f] = 0]
  /\ IF loaded
     THEN handleRename(f, newPath, vault[f])
     ELSE /\ UNCHANGED <<debounceMap, timers, lastAccepted>>
          /\ last' = [op |-> "rename", file |-> f, path |-> vault[f],
                      queue |-> <<>>, toAdd |-> <<>>]
  /\ formerNames' = [formerNames EXCEPT ![f] =
                       @ \cup ({TFileBasename(vault[f]), getImmediateParentName(vault[f])}
                                 \ {<<>>})]
  /\ UNCHANGED <<loaded, settings, fm, inflight, edits>>

\* the same event with the handler of src/src/main.ts registered
RenameAccum(f, newPath) ==
  /\ renames < MaxRenames
  /\ renames' = renames + 1
  /\ newPath \notin {vault[g] : g \in Files}
  /\ vault' = [vault EXCEPT ![f] = newPath]
  /\ stableFor' = [stableFor EXCEPT ![f] = 0]
  /\ IF loaded
     THEN handleRenameAccum(f, newPath, vault[f])
     ELSE /\ UNCHANGED <<debounceMap, timers, lastAccepted>>
          /\ last' = [op |-> "rename", file |-> f, path |-> vault[f],
                      queue |-> <<>>, toAdd |-> <<>>]
  /\ formerNames' = [formerNames EXCEPT ![f] =
                       @ \cup ({TFileBasename(vault[f]), getImmediateParentName(vault[f])}
                                 \ {<<>>})]
  /\ UNCHANGED <<loaded, settings, fm, inflight, edits>>

----------------------------------------------------------------------------
(* AliasProcessor.processAliases (src/src/utils/alias-processor.ts)        *)

\* this.app.vault.getFileByPath(path): the file at the path, or none
getFileByPath(path) ==
  IF \E f \in Files : vault[f] = path
  THEN CHOOSE f \in Files : vault[f] = path
  ELSE NoFile

\* a variant that compares exactly whatever the case policy
isCurrentBasename_exact(name, currentBasename) == name = currentBasename

\* lines 33-36: the candidate is the file's current basename
isCurrentBasename(name, currentBasename) ==
  \/ settings.caseSensitive /\ name = currentBasename
  \/ ~settings.caseSensitive /\ toLowerCase(name) = toLowerCase(currentBasename)

\* a variant without the ignore check of lines 28-31
toAdd_noIgnoreCheck(file, queue) ==
  LET currentBasename == TFileBasename(vault[file])
      keep(name)      == ~isCurrentBasename(name, currentBasename)
  IN  SelectSeq(queue, keep)

\* lines 23-41: the candidates that survive the ignore check and the
\* basename check, in queue order
toAdd(file, queue) ==
  LET regexes         == compileRegexes(settings.ignoreRegexes)
      currentBasename == TFileBasename(vault[file])
      keep(name)      == /\ ~matchesAny(regexes, name)
                         /\ ~isCurrentBasename(name, currentBasename)
  IN  SelectSeq(queue, keep)

\* a variant that never lower-cases
checkName_exact(name) == name

\* lines 58-59
checkName(name) == IF settings.caseSensitive THEN name ELSE toLowerCase(name)

\* a variant that pushes every name without looking at `existing`
pushNew_always(aliases, existing, names) == aliases \o names

\* a variant that inserts at the front (unshift instead of push)
RECURSIVE pushNew_unshift(_, _, _)
pushNew_unshift(aliases, existing, names) ==
  IF names = <<>> THEN aliases
  ELSE IF checkName(Head(names)) \in existing
       THEN pushNew_unshift(aliases, existing, Tail(names))
       ELSE pushNew_unshift(<<Head(names)>> \o aliases,
                            existing \cup {checkName(Head(names))}, Tail(names))

\* lines 57-64: push every name whose checkName is not in `existing`
RECURSIVE pushNew(_, _, _)
pushNew(aliases, existing, names) ==
  IF names = <<>> THEN aliases
  ELSE IF checkName(Head(names)) \in existing
       THEN pushNew(aliases, existing, Tail(names))
       ELSE pushNew(Append(aliases, Head(names)),
                    existing \cup {checkName(Head(names))}, Tail(names))

\* a variant without the autoCreateFrontmatter test of line 48
frontMatterCallback_alwaysCreate(value, names) ==
  LET aliases  == IF isArray(value) THEN value.items ELSE <<>>
      existing == {checkName(aliases[i]) : i \in 1..Len(aliases)}
  IN  List(pushNew(aliases, existing, names))

\* lines 45-65: the callback handed to processFrontMatter, as the new value
\* of the aliases key
frontMatterCallback(value, names) ==
  IF ~isArray(value) /\ ~settings.autoCreateFrontmatter THEN value
  ELSE LET aliases  == IF isArray(value) THEN value.items ELSE <<>>
           existing == {checkName(aliases[i]) : i \in 1..Len(aliases)}
       IN  List(pushNew(aliases, existing, names))

\* a variant without the early return of line 43
processAliases_noEarlyReturn(path, queue) ==
  LET file == getFileByPath(path)
  IN  IF file = NoFile THEN {}
      ELSE {[file  |-> file,
             toAdd |-> toAdd(file, queue),
             quiet |-> stableFor[file] >= settings.timeoutSeconds]}

\* lines 10-45: what processAliases does before its await: nothing when the
\* path resolves to no file or no candidate survives, else one
\* processFrontMatter call on the resolved file
processAliases(path, queue) ==
  LET file == getFileByPath(path)
  IN  IF file = NoFile THEN {}
      ELSE IF toAdd(file, queue) = <<>> THEN {}
      ELSE {[file  |-> file,
             toAdd |-> toAdd(file, queue),
             quiet |-> stableFor[file] >= settings.timeoutSeconds]}

----------------------------------------------------------------------------
(* Steps *)

\* a variant that leaves the entry in the map when the path resolves to no
\* file
TimerFire_keepOnMiss(id) ==
  /\ id \in DOMAIN timers
  /\ timers[id].remaining = 0
  /\ inflight' = inflight \cup processAliases(timers[id].currentPath, timers[id].queue)
  /\ debounceMap' = IF getFileByPath(timers[id].currentPath) = NoFile
                    THEN debounceMap
                    ELSE mapDelete(debounceMap, timers[id].currentPath)
  /\ timers' = clearTimeout(timers, id)
  /\ last' = LET file == getFileByPath(timers[id].currentPath)
             IN  [op |-> "fire", file |-> file, path |-> timers[id].currentPath,
                  queue |-> timers[id].queue,
                  toAdd |-> IF file = NoFile THEN <<>> ELSE toAdd(file, timers[id].queue)]
  /\ UNCHANGED <<formerNames, loaded, settings, vault, fm, renames, edits, stableFor, lastAccepted>>

\* the setTimeout callback of an entry (part_000 lines 153-156)
TimerFire(id) ==
  /\ id \in DOMAIN timers
  /\ timers[id].remaining = 0
  /\ inflight' = inflight \cup processAliases(timers[id].currentPath, timers[id].queue)
  /\ debounceMap' = mapDelete(debounceMap, timers[id].currentPath)
  /\ timers' = clearTimeout(timers, id)
  /\ last' = LET file == getFileByPath(timers[id].currentPath)
             IN  [op |-> "fire", file |-> file, path |-> timers[id].currentPath,
                  queue |-> timers[id].queue,
                  toAdd |-> IF file = NoFile THEN <<>> ELSE toAdd(file, timers[id].queue)]
  /\ UNCHANGED <<formerNames, loaded, settings, vault, fm, renames, edits, stableFor, lastAccepted>>

\* line 54: aliases.map(a => a.toLowerCase()) throws a TypeError on an
\* element that has no toLowerCase method
throwsTypeError(value) ==
  /\ isArray(value)
  /\ ~settings.caseSensitive
  /\ \E i \in 1..Len(value.items) : ~isString(value.items[i])

\* the host runs the callback of a pending processFrontMatter call and
\* saves the metadata (alias-processor.ts lines 45-65); when the callback
\* throws, nothing is saved and the promise of processAliases, which the
\* timer callback does not await, is rejected
ProcessFrontMatter(x) ==
  /\ x \in inflight
  /\ fm' = IF throwsTypeError(fm[x.file]) THEN fm
           ELSE [fm EXCEPT ![x.file] = frontMatterCallback(fm[x.file], x.toAdd)]
  /\ inflight' = inflight \ {x}
  /\ last' = [op |-> IF throwsTypeError(fm[x.file]) THEN "error" ELSE "txn",
              file |-> x.file, path |-> <<>>, queue |-> <<>>, toAdd |-> x.toAdd]
  /\ UNCHANGED <<formerNames, loaded, settings, vault, debounceMap, timers, renames, edits,
                 stableFor, lastAccepted>>

\* one second passes; a timer that is due fires, and a pending
\* processFrontMatter call completes, before the next second
Tick ==
  /\ inflight = {}
  /\ \A id \in DOMAIN timers : timers[id].remaining > 0
  /\ \/ DOMAIN timers # {}
     \/ \E f \in Files : stableFor[f] < settings.timeoutSeconds
  /\ timers' = [id \in DOMAIN timers |->
                  [timers[id] EXCEPT !.remaining = @ - 1]]
  /\ stableFor' = [f \in Files |->
                     IF stableFor[f] < settings.timeoutSeconds
                     THEN stableFor[f] + 1 ELSE stableFor[f]]
  /\ UNCHANGED <<formerNames, loaded, settings, vault, fm, debounceMap, inflight, renames, edits,
                 lastAccepted, last>>

\* the timers onunload clears: those of the stored entries
RECURSIVE clearAll(_, _)
clearAll(tm, ids) ==
  IF ids = {} THEN tm
  ELSE LET id == CHOOSE x \in ids : TRUE
       IN  clearAll(IF id # 0 THEN clearTimeout(tm, id) ELSE tm, ids \ {id})

\* a variant that clears the map without cancelling the timers
onunload_keepTimers ==
  /\ loaded
  /\ loaded' = FALSE
  /\ debounceMap' = [k \in {} |-> 0]
  /\ last' = [op |-> "unload", file |-> NoFile, path |-> <<>>,
              queue |-> <<>>, toAdd |-> <<>>]
  /\ UNCHANGED <<formerNames, settings, vault, fm, timers, inflight, renames, edits, stableFor,
                 lastAccepted>>

\* onunload (part_000 lines 19-27); the host drops the registered handler
onunload ==
  /\ loaded
  /\ loaded' = FALSE
  /\ timers' = clearAll(timers, {debounceMap[k].timeoutId : k \in DOMAIN debounceMap})
  /\ debounceMap' = [k \in {} |-> 0]
  /\ last' = IF DOMAIN debounceMap = {}
             THEN [op |-> "unload", file |-> NoFile, path |-> <<>>,
                   queue |-> <<>>, toAdd |-> <<>>]
             ELSE LET k == CHOOSE k \in DOMAIN debounceMap : TRUE
                  IN  [op |-> "unload", file |-> NoFile, path |-> k,
                       queue |-> debounceMap[k].queue, toAdd |-> <<>>]
  /\ UNCHANGED <<formerNames, settings, vault, fm, inflight, renames, edits, stableFor,
                 lastAccepted>>

\* the settings tab's onChange of "Ignore regex patterns"
\* (src/unnamed/part_002 lines 28-31)
SetIgnoreRegexes(v) ==
  /\ loaded
  /\ edits < MaxEdits
  /\ edits' = edits + 1
  /\ v # settings.ignoreRegexes
  /\ settings' = [settings EXCEPT !.ignoreRegexes = v]
  /\ last' = [op |-> "settings", file |-> NoFile, path |-> <<>>,
              queue |-> <<>>, toAdd |-> <<>>]
  /\ UNCHANGED <<formerNames, loaded, vault, fm, debounceMap, timers, inflight, renames,
                 stableFor, lastAccepted>>

----------------------------------------------------------------------------
(* Specification *)

NoRename == [old |-> <<>>, new |-> <<>>]

Init ==
  /\ loaded = TRUE
  /\ settings \in Configs
  /\ vault = [f \in Files |-> IF f = "f1" THEN P_a ELSE P_B]
  /\ fm \in InitialMetadata
  /\ debounceMap = [k \in {} |-> 0]
  /\ timers = [k \in {} |-> 0]
  /\ inflight = {}
  /\ renames = 0
  /\ edits = 0
  /\ stableFor = [f \in Files |-> settings.timeoutSeconds]
  /\ lastAccepted = [f \in Files |-> NoRename]
  /\ formerNames = [f \in Files |-> {}]
  /\ last = [op |-> "init", file |-> NoFile, path |-> <<>>, queue |-> <<>>,
             toAdd |-> <<>>]

Next ==
  \/ \E f \in Files, p \in Paths : Rename(f, p)
  \/ \E id \in DOMAIN timers : TimerFire(id)
  \/ \E x \in inflight : ProcessFrontMatter(x)
  \/ Tick
  \/ onunload
  \/ \E v \in IgnoreChoices : SetIgnoreRegexes(v)

Spec == Init /\ [][Next]_vars

\* the accumulate-all revision: trackFolderRenames is a boolean
ConfigsAccum ==
  [ ignoreRegexes         : {InitialIgnore},
    timeoutSeconds        : {DebounceSeconds},
    caseSensitive         : BOOLEAN,
    autoCreateFrontmatter : BOOLEAN,
    includeFolders        : {<<>>},
    excludeFolders        : {<<>>},
    fileExtensions        : {DefaultExtensions},
    trackFolderRenames    : {FALSE} ]

InitAccum ==
  /\ loaded = TRUE
  /\ settings \in ConfigsAccum
  /\ vault = [f \in Files |-> IF f = "f1" THEN P_a ELSE P_B]
  /\ fm \in InitialMetadata
  /\ debounceMap = [k \in {} |-> 0]
  /\ timers = [k \in {} |-> 0]
  /\ inflight = {}
  /\ renames = 0
  /\ edits = 0
  /\ stableFor = [f \in Files |-> settings.timeoutSeconds]
  /\ lastAccepted = [f \in Files |-> NoRename]
  /\ formerNames = [f \in Files |-> {}]
  /\ last = [op |-> "init", file |-> NoFile, path |-> <<>>, queue |-> <<>>,
             toAdd |-> <<>>]

NextAccum ==
  \/ \E f \in Files, p \in Paths : RenameAccum(f, p)
  \/ \E id \in DOMAIN timers : TimerFire(id)
  \/ \E x \in inflight : ProcessFrontMatter(x)
  \/ Tick
  \/ onunload
  \/ \E v \in IgnoreChoices : SetIgnoreRegexes(v)

SpecAccum == InitAccum /\ [][NextAccum]_vars

----------------------------------------------------------------------------
(* The stable-name revision on files whose aliases list holds a non-string *)

MetadataWithNumber ==
  { [f \in Files |-> IF f = "f1" THEN List(<<Num7>>) ELSE Absent],
    [f \in Files |-> IF f = "f1" THEN List(<<s_A, Num7>>) ELSE Scalar] }

InitMeta ==
  /\ loaded = TRUE
  /\ settings \in Configs
  /\ vault = [f \in Files |-> IF f = "f1" THEN P_a ELSE P_B]
  /\ fm \in MetadataWithNumber
  /\ debounceMap = [k \in {} |-> 0]
  /\ timers = [k \in {} |-> 0]
  /\ inflight = {}
  /\ renames = 0
  /\ edits = 0
  /\ stableFor = [f \in Files |-> settings.timeoutSeconds]
  /\ lastAccepted = [f \in Files |-> NoRename]
  /\ formerNames = [f \in Files |-> {}]
  /\ last = [op |-> "init", file |-> NoFile, path |-> <<>>, queue |-> <<>>,
             toAdd |-> <<>>]

\* the rename event, in a short behaviour
RenameShort(f, newPath) == renames < ShortRun /\ Rename(f, newPath)

NextMeta ==
  \/ \E f \in Files, p \in Paths : RenameShort(f, p)
  \/ \E id \in DOMAIN timers : TimerFire(id)
  \/ \E x \in inflight : ProcessFrontMatter(x)
  \/ Tick
  \/ onunload

SpecMeta == InitMeta /\ [][NextMeta]_vars

----------------------------------------------------------------------------
(* The stable-name revision with the host's scheduling: an armed timer whose
   delay has elapsed is run by the event loop, a pending processFrontMatter
   call is completed by the host, and time passes *)

NextShort ==
  \/ \E f \in Files, p \in Paths : RenameShort(f, p)
  \/ \E id \in DOMAIN timers : TimerFire(id)
  \/ \E x \in inflight : ProcessFrontMatter(x)
  \/ Tick
  \/ onunload

SpecLive ==
  /\ Init
  /\ [][NextShort]_vars
  /\ WF_vars(Tick)
  /\ WF_vars(\E id \in DOMAIN timers : TimerFire(id))
  /\ WF_vars(\E x \in inflight : ProcessFrontMatter(x))

----------------------------------------------------------------------------
(* The stable-name revision with folders and folder settings *)

P_da == <<"d", "/", "a", ".", "m", "d">>
P_db == <<"d", "/", "b", ".", "m", "d">>
P_ea == <<"e", "/", "a", ".", "m", "d">>
P_ua == <<"_", "/", "a", ".", "m", "d">>

\* the paths the files of SpecFolders are renamed among
PathsFolders == {P_a, P_b, P_da, P_db, P_ea, P_ua}

\* entries of the include and exclude lists
F_d         == <<"d">>
F_slash     == <<"/">>
F_rootSlash == Tok_root \o <<"/">>
F_vault_d   == Tok_vault \o <<"d">>

FolderSpecs == {Tok_vault, Tok_root, F_d, F_slash, F_rootSlash, F_vault_d}

\* values of trackFolderRenames: unset, blank, and a file name
T_blank == <<" ">>

ConfigsFolders ==
  [ ignoreRegexes         : {InitialIgnore},
    timeoutSeconds        : {DebounceSeconds},
    caseSensitive         : BOOLEAN,
    autoCreateFrontmatter : {TRUE},
    includeFolders        : {<<>>, <<Tok_vault>>, <<F_d>>, <<F_slash>>, <<F_rootSlash>>,
                             <<F_vault_d, Tok_root>>},
    excludeFolders        : {<<>>, <<F_d>>, <<Tok_root>>},
    fileExtensions        : {DefaultExtensions},
    trackFolderRenames    : {<<>>, T_blank, s_A} ]

InitFolders ==
  /\ loaded = TRUE
  /\ settings \in ConfigsFolders
  /\ vault = [f \in Files |-> IF f = "f1" THEN P_da ELSE P_b]
  /\ fm = [f \in Files |-> Absent]
  /\ debounceMap = [k \in {} |-> 0]
  /\ timers = [k \in {} |-> 0]
  /\ inflight = {}
  /\ renames = 0
  /\ edits = 0
  /\ stableFor = [f \in Files |-> settings.timeoutSeconds]
  /\ lastAccepted = [f \in Files |-> NoRename]
  /\ formerNames = [f \in Files |-> {}]
  /\ last = [op |-> "init", file |-> NoFile, path |-> <<>>, queue |-> <<>>,
             toAdd |-> <<>>]

NextFolders ==
  \/ \E f \in Files, p \in PathsFolders : RenameShort(f, p)
  \/ \E id \in DOMAIN timers : TimerFire(id)
  \/ \E x \in inflight : ProcessFrontMatter(x)
  \/ Tick
  \/ onunload

SpecFolders == InitFolders /\ [][NextFolders]_vars

----------------------------------------------------------------------------
(* The stable-name revision among paths with an untracked extension and a
   name that is only an extension *)

P_at  == <<"a", ".", "t">>
P_dot == <<".", "m", "d">>

PathsEdge == {P_a, P_b, P_B, P_u, P_da, P_at, P_dot}

ConfigsEdge ==
  [ ignoreRegexes         : {InitialIgnore},
    timeoutSeconds        : {DebounceSeconds},
    caseSensitive         : BOOLEAN,
    autoCreateFrontmatter : {TRUE},
    includeFolders        : {<<>>, <<F_d>>},
    excludeFolders        : {<<>>},
    fileExtensions        : {DefaultExtensions},
    trackFolderRenames    : {<<>>, s_A} ]

InitEdge ==
  /\ loaded = TRUE
  /\ settings \in ConfigsEdge
  /\ vault = [f \in Files |-> IF f = "f1" THEN P_da ELSE P_b]
  /\ fm = [f \in Files |-> Absent]
  /\ debounceMap = [k \in {} |-> 0]
  /\ timers = [k \in {} |-> 0]
  /\ inflight = {}
  /\ renames = 0
  /\ edits = 0
  /\ stableFor = [f \in Files |-> settings.timeoutSeconds]
  /\ lastAccepted = [f \in Files |-> NoRename]
  /\ formerNames = [f \in Files |-> {}]
  /\ last = [op |-> "init", file |-> NoFile, path |-> <<>>, queue |-> <<>>,
             toAdd |-> <<>>]

RenameEdge(f, newPath) == renames < EdgeRun /\ Rename(f, newPath)

NextEdge ==
  \/ \E f \in Files, p \in PathsEdge : RenameEdge(f, p)
  \/ \E id \in DOMAIN timers : TimerFire(id)
  \/ \E x \in inflight : ProcessFrontMatter(x)
  \/ Tick
  \/ onunload

SpecEdge == InitEdge /\ [][NextEdge]_vars

----------------------------------------------------------------------------
(* Claims *)

validIgnore == compileRegexes(settings.ignoreRegexes)

IsPrefix(a, b) == Len(a) <= Len(b) /\ SubSeq(b, 1, Len(a)) = a

\* C1: in the stable-name revision, once a file has been renamed p0 -> p1 ->
\* p2 (both accepted, the second before the first rename's timer fired), no
\* settlement is invoked with p1: no timer fires whose path is the old path
\* of its file's latest accepted rename.
C1_NoSettlementAtIntermediatePath ==
  [][\A id \in DOMAIN timers :
       TimerFire(id) =>
         timers[id].currentPath # lastAccepted[timers[id].file].old]_vars

\* C2: in the stable-name revision, the candidate set handed to settlement
\* at the end of a chain of two or more accepted renames of one file is
\* exactly the singleton holding the candidate the first rename queued.
C2_FirstCandidateOnly ==
  [][\A id \in DOMAIN timers :
       (TimerFire(id) /\ timers[id].chain >= 2) =>
         timers[id].queue = <<timers[id].first>>]_vars

\* C3 (as claimed): after onunload the pending map is empty, no timer is
\* armed, no settlement is started and no metadata write happens.
C3_NoWriteAfterUnload ==
  /\ [](~loaded => (DOMAIN debounceMap = {} /\ DOMAIN timers = {}))
  /\ [][~loaded => (inflight' \subseteq inflight /\ fm' = fm)]_vars

\* C3 (amended): after onunload the pending map is empty, no timer is armed
\* and no settlement is started; the metadata changes only by the completion
\* of a processFrontMatter call issued by a timer that fired before onunload.
C3_NoSettlementAfterUnload ==
  /\ [](~loaded => (DOMAIN debounceMap = {} /\ DOMAIN timers = {}))
  /\ [][~loaded =>
          /\ inflight' \subseteq inflight
          /\ fm' # fm => \E x \in inflight : ProcessFrontMatter(x)]_vars

\* C3 witness: onunload dropped a pending entry of a file, a full debounce
\* duration has passed since, and the candidate was not written.
C3_Witness ==
  /\ ~loaded
  /\ last.op = "unload"
  /\ last.path # <<>>
  /\ inflight = {}
  /\ \E f \in Files :
       /\ vault[f] = last.path
       /\ stableFor[f] = settings.timeoutSeconds
       /\ \A i \in 1..Len(fm[f].items) : fm[f].items[i] # last.queue[1]

\* C4: whenever a settlement appends to a file's alias list, that file's
\* path has not changed during the debounce duration before the timer fired.
C4_QuietWindowBeforeCommit ==
  [][\A x \in inflight :
       (ProcessFrontMatter(x) /\ fm' # fm) => x.quiet]_vars

\* C5: a candidate that matches a validly compiled ignore pattern is never
\* appended: an accepted rename queues no such candidate, a firing timer
\* hands no such candidate to processFrontMatter (whenever the pattern was
\* added), and processFrontMatter appends handed candidates only.
C5_IgnoredNeverAppended ==
  /\ [][\A f \in Files, p \in Paths :
          (loaded /\ Rename(f, p) /\ accepted(vault[f], p)) =>
            ~matchesAny(validIgnore, toQueue(vault[f], p))]_vars
  /\ [][\A id \in DOMAIN timers :
          TimerFire(id) =>
            \A x \in inflight' \ inflight : \A i \in 1..Len(x.toAdd) :
              ~matchesAny(validIgnore, x.toAdd[i])]_vars
  /\ [][\A x \in inflight :
          ProcessFrontMatter(x) =>
            \A i \in 1..Len(fm'[x.file].items) :
              \/ i <= Len(fm[x.file].items) /\ fm'[x.file].items[i] = fm[x.file].items[i]
              \/ \E j \in 1..Len(x.toAdd) : fm'[x.file].items[i] = x.toAdd[j]]_vars

\* C5 witness: a timer fired on a resolved file with a candidate that was
\* accepted under the initial patterns and matches a pattern added since;
\* the candidate was dropped.
C5_Witness ==
  /\ last.op = "fire"
  /\ last.file # NoFile
  /\ settings.ignoreRegexes # InitialIgnore
  /\ ~matchesAny(compileRegexes(InitialIgnore), last.queue[1])
  /\ matchesAny(validIgnore, last.queue[1])
  /\ last.toAdd = <<>>

\* a is b with some elements left out
RECURSIVE IsSubsequence(_, _)
IsSubsequence(a, b) ==
  IF a = <<>> THEN TRUE
  ELSE IF b = <<>> THEN FALSE
  ELSE IF Head(a) = Head(b) THEN IsSubsequence(Tail(a), Tail(b))
  ELSE IsSubsequence(a, Tail(b))

\* the elements a step added at the end of a file's alias list
appended(f) ==
  SubSeq(fm'[f].items, Len(fm[f].items) + 1, Len(fm'[f].items))

\* C6: a file's alias list is only ever extended: at every step a list
\* stays a list with the old list as a prefix, and what a settlement adds at
\* the end are candidates of that settlement in candidate iteration order.
C6_AppendOnly ==
  /\ [][\A f \in Files :
          isArray(fm[f]) => (isArray(fm'[f]) /\ IsPrefix(fm[f].items, fm'[f].items))]_vars
  /\ [][\A x \in inflight :
          (ProcessFrontMatter(x) /\ isArray(fm[x.file])) =>
            IsSubsequence(appended(x.file), x.toAdd)]_vars

\* C6 witness: a settlement with two candidates extended the list <<"A">> of
\* file f1 by both, in queue order.
C6_Witness ==
  /\ last.op = "txn"
  /\ last.file = "f1"
  /\ Len(last.toAdd) = 2
  /\ fm["f1"] = List(<<s_A>> \o last.toAdd)

\* a name under the active case policy
policyForm(n) == IF settings.caseSensitive THEN n ELSE toLowerCase(n)

\* no two elements of the list have the same form under the case policy
DuplicateFree(items) ==
  \A i, j \in 1..Len(items) : i # j => policyForm(items[i]) # policyForm(items[j])

\* C7: a settlement never appends a value whose form under the case policy
\* equals the form of an alias already in the list or of a value appended
\* earlier in the same settlement; a duplicate-free list stays duplicate-free.
C7_NoDuplicateAppended ==
  [][\A x \in inflight :
       ProcessFrontMatter(x) =>
         LET old == fm[x.file].items
             new == fm'[x.file].items
         IN  /\ \A j \in (Len(old) + 1)..Len(new) : \A i \in 1..(j - 1) :
                  policyForm(new[i]) # policyForm(new[j])
             /\ DuplicateFree(old) => DuplicateFree(new)]_vars

\* C7 witness: a settlement handed two candidates that differ in letter case
\* only, with the case policy off; the first is in the list, the second not.
C7_Witness ==
  /\ last.op = "txn"
  /\ ~settings.caseSensitive
  /\ Len(last.toAdd) = 2
  /\ last.toAdd[1] # last.toAdd[2]
  /\ toLowerCase(last.toAdd[1]) = toLowerCase(last.toAdd[2])
  /\ isArray(fm[last.file])
  /\ \E i \in 1..Len(fm[last.file].items) : fm[last.file].items[i] = last.toAdd[1]
  /\ \A i \in 1..Len(fm[last.file].items) : fm[last.file].items[i] # last.toAdd[2]

\* C8: a candidate equal to the file's basename at settlement time under the
\* case policy is never handed to processFrontMatter; when it is the only
\* candidate, the settlement opens no transaction and changes no metadata.
C8_CurrentBasenameNeverAdded ==
  [][\A id \in DOMAIN timers :
       (TimerFire(id) /\ getFileByPath(timers[id].currentPath) # NoFile) =>
         LET file     == getFileByPath(timers[id].currentPath)
             basename == TFileBasename(vault[file])
             same(n)  == IF settings.caseSensitive THEN n = basename
                         ELSE toLowerCase(n) = toLowerCase(basename)
         IN  /\ \A x \in inflight' \ inflight : \A i \in 1..Len(x.toAdd) :
                  ~same(x.toAdd[i])
             /\ (\A i \in 1..Len(timers[id].queue) : same(timers[id].queue[i]))
                  => (inflight' = inflight /\ fm' = fm)]_vars

\* C8 witness: a timer fired on a resolved file whose only candidate differs
\* from the file's basename in letter case only, and nothing was handed on.
C8_Witness ==
  /\ last.op = "fire"
  /\ last.file # NoFile
  /\ Len(last.queue) = 1
  /\ last.queue[1] # TFileBasename(last.path)
  /\ toLowerCase(last.queue[1]) = toLowerCase(TFileBasename(last.path))
  /\ ~matchesAny(validIgnore, last.queue[1])
  /\ last.toAdd = <<>>

\* C9: with autoCreateFrontmatter disabled, a settlement against a file
\* whose aliases value is not a list leaves the metadata unchanged.
C9_NoAutoCreateNoWrite ==
  [][\A x \in inflight :
       (ProcessFrontMatter(x) /\ ~settings.autoCreateFrontmatter
          /\ ~isArray(fm[x.file])) => fm' = fm]_vars

\* C9 witness: a processFrontMatter call with candidates completed on a file
\* with no aliases key while auto-create is disabled.
C9_Witness ==
  /\ last.op = "txn"
  /\ ~settings.autoCreateFrontmatter
  /\ last.toAdd # <<>>
  /\ fm[last.file] = Absent

\* C10: when a timer fires and its path resolves to no file, no transaction
\* is opened, no metadata changes, the entry under that path is removed and
\* no timer is armed in its place.
C10_ResolutionMissAborts ==
  [][\A id \in DOMAIN timers :
       (TimerFire(id) /\ getFileByPath(timers[id].currentPath) = NoFile) =>
         /\ inflight' = inflight
         /\ fm' = fm
         /\ timers[id].currentPath \notin DOMAIN debounceMap'
         /\ DOMAIN timers' = DOMAIN timers \ {id}
         /\ \A k \in DOMAIN debounceMap' : debounceMap'[k] = debounceMap[k]]_vars

\* C10 witness: a timer fired whose path resolved to no file.
C10_Witness ==
  /\ last.op = "fire"
  /\ last.file = NoFile
  /\ last.queue # <<>>
  /\ last.path \notin DOMAIN debounceMap

\* the rename keeps the parent folder and changes only the letter case of
\* the basename
caseOnly(oldPath, newPath) ==
  /\ withoutLastSegment(oldPath) = withoutLastSegment(newPath)
  /\ getBasename(oldPath) # TFileBasename(newPath)
  /\ toLowerCase(getBasename(oldPath)) = toLowerCase(TFileBasename(newPath))

\* C11: a rename that changes only the letter case of the basename is a
\* no-op with caseSensitive off (the pending map and the timers are left
\* alone); with caseSensitive on it is a name change whose candidate is the
\* old basename, and unless an ignore pattern matches, an entry with a newly
\* armed timer is stored under the new path.
C11_CaseOnlyRename ==
  [][\A f \in Files, p \in Paths :
       (loaded /\ Rename(f, p) /\ caseOnly(vault[f], p)) =>
         IF ~settings.caseSensitive
         THEN debounceMap' = debounceMap /\ timers' = timers /\ last'.queue = <<>>
         ELSE \/ matchesAny(validIgnore, getBasename(vault[f]))
              \/ matchesAny(validIgnore, TFileBasename(p))
              \/ /\ last'.queue = <<getBasename(vault[f])>>
                 /\ p \in DOMAIN debounceMap'
                 /\ debounceMap'[p].timeoutId \in DOMAIN timers'
                 /\ timers'[debounceMap'[p].timeoutId].remaining = settings.timeoutSeconds]_vars

\* C11 witness: with caseSensitive on, the rename b.md -> B.md was handled
\* and queued the candidate "b".
C11_Witness ==
  /\ settings.caseSensitive
  /\ last.op = "rename"
  /\ last.path = P_b
  /\ last.file \in Files
  /\ vault[last.file] = P_B
  /\ last.queue = <<<<"b">>>>
  /\ P_B \in DOMAIN debounceMap

\* in scope, as the claim defines it
inScopeClaimed(path) ==
  /\ \/ settings.includeFolders = <<>>
     \/ \E i \in 1..Len(settings.includeFolders) :
          isPathInFolder(path, settings.includeFolders[i])
  /\ \A i \in 1..Len(settings.excludeFolders) :
       ~isPathInFolder(path, settings.excludeFolders[i])

\* C12: a name-change rename creates or modifies a pending entry only if
\* its new path is in scope; an out-of-scope name change leaves the pending
\* map and all timers unchanged.
C12_NameChangeOnlyInScope ==
  [][\A f \in Files, p \in PathsFolders :
       (loaded /\ RenameShort(f, p) /\ isNameChange(vault[f], p)
          /\ ~inScopeClaimed(p)) =>
         (debounceMap' = debounceMap /\ timers' = timers)]_vars

\* C12 witness: a name change whose new path matches an include entry and
\* an exclude entry, with no ignore pattern matching, queued nothing.
C12_Witness ==
  /\ last.op = "rename"
  /\ last.file \in Files
  /\ isNameChange(last.path, vault[last.file])
  /\ ~matchesAny(validIgnore, getBasename(last.path))
  /\ ~matchesAny(validIgnore, TFileBasename(vault[last.file]))
  /\ \E i \in 1..Len(settings.includeFolders) :
       isPathInFolder(vault[last.file], settings.includeFolders[i])
  /\ \E i \in 1..Len(settings.excludeFolders) :
       isPathInFolder(vault[last.file], settings.excludeFolders[i])
  /\ last.queue = <<>>
  /\ DOMAIN debounceMap = {}

\* what is left of each folder spec once the {vault}/{root} token is removed
strippedSpec(folder) ==
  IF folder = Tok_vault \/ folder = Tok_root THEN <<>>
  ELSE IF folder = F_rootSlash THEN <<"/">>
  ELSE IF folder = F_vault_d THEN <<"d">>
  ELSE folder

hasToken(folder) == folder \in {Tok_vault, Tok_root, F_rootSlash, F_vault_d}

noSlash(path) == \A i \in 1..Len(path) : path[i] # "/"

\* the paths isPathInFolder is compared on: the file paths, a path equal to
\* a folder spec, and a path that shares only a name prefix with a folder
ProbePaths == PathsFolders \cup {F_d, <<"d", "d", "/", "a", ".", "m", "d">>}

\* isPathInFolder as the claim describes it
matchClaimed(path, folder) ==
  IF hasToken(folder) /\ strippedSpec(folder) \in {<<>>, <<"/">>}
  THEN noSlash(path)
  ELSE \/ path = strippedSpec(folder)
       \/ /\ Len(path) > Len(strippedSpec(folder))
          /\ SubSeq(path, 1, Len(strippedSpec(folder)) + 1) = strippedSpec(folder) \o <<"/">>

\* C13: for a folder spec whose token-stripped form is empty or "/",
\* isPathInFolder is true exactly for the paths without a slash; for any
\* other spec it is true exactly when the path equals the stripped spec or
\* starts with it followed by "/". With the include list holding only the
\* root wildcard, a name change is queued exactly when the new path has no
\* slash.
C13_IsPathInFolder ==
  /\ [](\A path \in ProbePaths, folder \in FolderSpecs :
          isPathInFolder(path, folder) <=> matchClaimed(path, folder))
  /\ [][\A f \in Files, p \in PathsFolders :
          (loaded /\ RenameShort(f, p) /\ isNameChange(vault[f], p)
             /\ settings.includeFolders = <<Tok_vault>>
             /\ settings.excludeFolders = <<>>
             /\ ~matchesAny(validIgnore, getBasename(vault[f]))
             /\ ~matchesAny(validIgnore, TFileBasename(p))) =>
            (last'.queue # <<>> <=> noSlash(p))]_vars

\* C13 witness: with the root wildcard as the only include entry, the name
\* change d/a.md -> d/b.md queued nothing and the name change b.md -> a.md
\* was queued.
C13_Witness ==
  /\ settings.includeFolders = <<Tok_vault>>
  /\ settings.excludeFolders = <<>>
  /\ vault["f1"] = P_db
  /\ vault["f2"] = P_a
  /\ last.op = "rename"
  /\ last.file = "f2"
  /\ last.queue = <<<<"b">>>>
  /\ DOMAIN debounceMap = {P_a}

\* the conditions the claim lists for a folder-change candidate
folderGatesClaimed(oldPath, newPath) ==
  /\ \E i \in 1..Len(settings.trackFolderRenames) : settings.trackFolderRenames[i] # " "
  /\ IF settings.caseSensitive
     THEN TFileBasename(newPath) = settings.trackFolderRenames
     ELSE toLowerCase(TFileBasename(newPath)) = toLowerCase(settings.trackFolderRenames)
  /\ getImmediateParentName(oldPath) # <<>>
  /\ getImmediateParentName(newPath) # <<>>
  /\ ~matchesAny(validIgnore, getImmediateParentName(oldPath))
  /\ ~matchesAny(validIgnore, getImmediateParentName(newPath))

entryFile(k) == timers[debounceMap[k].timeoutId].file

\* C15: the debounce map never holds two entries that were both created by
\* renames of the same file and carry that file's own former names.
C15_OneEntryPerFile ==
  \A k1, k2 \in DOMAIN debounceMap :
    (/\ k1 # k2
     /\ debounceMap[k1].timeoutId \in DOMAIN timers
     /\ debounceMap[k2].timeoutId \in DOMAIN timers
     /\ timers[debounceMap[k1].timeoutId].chain = 1
     /\ timers[debounceMap[k2].timeoutId].chain = 1
     /\ debounceMap[k1].queue = <<timers[debounceMap[k1].timeoutId].first>>
     /\ debounceMap[k2].queue = <<timers[debounceMap[k2].timeoutId].first>>)
      => entryFile(k1) # entryFile(k2)

\* C16: no handleRename call and no settlement raises an error, whatever
\* the configuration and whatever the aliases key holds (nothing, a non-list
\* value, or a list with non-string elements).
C16_NoErrorRaised == last.op # "error"

\* C17: after an accepted rename from oldPath to a different newPath that
\* finds an existing pending entry, the map holds an entry under newPath
\* with exactly one armed timer, the found entry's previous timer is
\* cancelled, and the map holds no entry under oldPath.
C17_RekeyOnAcceptedRename ==
  [][\A f \in Files, p \in Paths :
       (loaded /\ Rename(f, p) /\ accepted(vault[f], p)
          /\ existingKey(vault[f], p) # Null) =>
         LET found == debounceMap[existingKey(vault[f], p)]
         IN  /\ p \in DOMAIN debounceMap'
             /\ debounceMap'[p].timeoutId \in DOMAIN timers'
             /\ Cardinality({id \in DOMAIN timers' : timers'[id].currentPath = p}) = 1
             /\ \/ found.timeoutId \notin DOMAIN timers'
                \/ found.timeoutId = debounceMap'[p].timeoutId
             /\ vault[f] \notin DOMAIN debounceMap']_vars

\* C18: the armed timers and the stored entries are in one-to-one
\* correspondence: every stored entry names an armed timer for its own key,
\* every armed timer is named by a stored entry, and no two armed timers
\* target the same path.
C18_TimersMatchEntries ==
  /\ \A k \in DOMAIN debounceMap :
       /\ debounceMap[k].timeoutId \in DOMAIN timers
       /\ timers[debounceMap[k].timeoutId].currentPath = k
       /\ debounceMap[k].currentPath = k
  /\ \A id \in DOMAIN timers :
       \E k \in DOMAIN debounceMap : debounceMap[k].timeoutId = id
  /\ \A i, j \in DOMAIN timers :
       i # j => timers[i].currentPath # timers[j].currentPath
  /\ \A k1, k2 \in DOMAIN debounceMap :
       k1 # k2 => debounceMap[k1].timeoutId # debounceMap[k2].timeoutId

\* C18 witness: an accepted rename found an existing entry and re-armed it
\* (the stored candidate is not the one this rename queued) while a second
\* entry is pending; two entries are stored and two timers are armed.
C18_Witness ==
  /\ last.op = "rename"
  /\ last.queue # <<>>
  /\ Cardinality(DOMAIN debounceMap) = 2
  /\ Cardinality(DOMAIN timers) = 2
  /\ last.file \in Files
  /\ vault[last.file] \in DOMAIN debounceMap
  /\ debounceMap[vault[last.file]].queue # last.queue

\* C19: in the accumulate-all revision every armed timer belongs to an
\* entry stored in the map; hence after onunload no timer is armed, and a
\* firing timer removes only its own entry from the map.
C19_TimersBelongToEntries ==
  /\ [](\A id \in DOMAIN timers :
          \E k \in DOMAIN debounceMap : debounceMap[k].timeoutId = id)
  /\ [](~loaded => DOMAIN timers = {})
  /\ [][\A id \in DOMAIN timers :
          TimerFire(id) =>
            \A k \in DOMAIN debounceMap :
              debounceMap[k].timeoutId # id => k \in DOMAIN debounceMap']_vars

\* the values held by a queue
members(queue) == {queue[i] : i \in 1..Len(queue)}

\* C20: in the accumulate-all revision, the candidate set handed to the
\* settlement at the end of a chain of two or more accepted renames of one file, each
\* arriving while the previous rename's timer is still armed, is the union of
\* the candidates of all renames of the chain.
C20_UnionOfChain ==
  [][\A id \in DOMAIN timers :
       (TimerFire(id) /\ timers[id].chain >= 2) =>
         members(timers[id].queue) = members(timers[id].all)]_vars

\* the basename changes under the case policy
basenameChanges(oldPath, newPath) ==
  IF settings.caseSensitive
  THEN getBasename(oldPath) # TFileBasename(newPath)
  ELSE toLowerCase(getBasename(oldPath)) # toLowerCase(TFileBasename(newPath))

\* C21: no rename event is both a name change and a folder change; when the
\* basename changes under the case policy the event is a name change whatever
\* happens to the parent folder, the candidate it queues (if any) is the old
\* basename, and the old parent folder name is not queued.
C21_NameAndFolderExclusive ==
  [][\A f \in Files, p \in PathsFolders :
       (loaded /\ RenameShort(f, p)) =>
         /\ ~(isNameChange(vault[f], p) /\ isFolderChange(vault[f], p))
         /\ basenameChanges(vault[f], p) =>
              /\ isNameChange(vault[f], p)
              /\ last'.queue \in {<<>>, <<getBasename(vault[f])>>}
              /\ last'.queue # <<getImmediateParentName(vault[f])>>]_vars

\* C21 witness: d/b.md -> e/a.md, a rename and a move at once, with folder
\* tracking set to the new basename: the candidate queued is "b", not "d".
C21_Witness ==
  /\ toLowerCase(settings.trackFolderRenames) = toLowerCase(<<"a">>)
  /\ settings.trackFolderRenames # <<>>
  /\ ~settings.caseSensitive
  /\ last.op = "rename"
  /\ last.path = P_db
  /\ last.file \in Files
  /\ vault[last.file] = P_ea
  /\ last.queue = <<<<"b">>>>
  /\ P_ea \in DOMAIN debounceMap

C23_EntriesEventuallyDestroyed ==
  /\ [](\A k \in DOMAIN debounceMap :
          \E id \in DOMAIN timers : timers[id].currentPath = k)
  /\ (DOMAIN debounceMap # {} \/ DOMAIN timers # {})
       ~> (DOMAIN debounceMap = {} /\ DOMAIN timers = {})

\* C23 witness: the renames have stopped, no teardown happened, and the
\* firing of a timer has emptied the map.
C23_Witness ==
  /\ loaded
  /\ renames = ShortRun
  /\ last.op = "fire"
  /\ DOMAIN debounceMap = {}
  /\ DOMAIN timers = {}

\* the configured ignore patterns include one that does not compile
hasMalformed ==
  \E i \in 1..Len(settings.ignoreRegexes) : ~RegExpCompiles(settings.ignoreRegexes[i])

\* some configured pattern that compiles matches the name
validMatch(name) ==
  \E i \in 1..Len(settings.ignoreRegexes) :
    /\ RegExpCompiles(settings.ignoreRegexes[i])
    /\ RegExpTest(settings.ignoreRegexes[i], name)

\* C24: with a malformed ignore pattern configured, the valid patterns are
\* still applied and nothing else is: a name change is queued exactly when no
\* valid pattern matches its old or new basename, and a firing timer hands on
\* exactly the candidates that match no valid pattern and differ from the
\* current basename.
C24_MalformedPatternSkipped ==
  /\ [][\A f \in Files, p \in Paths :
          (loaded /\ Rename(f, p) /\ hasMalformed /\ isNameChange(vault[f], p)) =>
            (last'.queue = <<getBasename(vault[f])>>
               <=> ~(validMatch(getBasename(vault[f])) \/ validMatch(TFileBasename(p))))]_vars
  /\ [][\A id \in DOMAIN timers :
          (TimerFire(id) /\ hasMalformed
             /\ getFileByPath(timers[id].currentPath) # NoFile) =>
            LET file    == getFileByPath(timers[id].currentPath)
                keep(n) == /\ ~validMatch(n)
                           /\ ~isCurrentBasename(n, TFileBasename(vault[file]))
            IN  last'.toAdd = SelectSeq(timers[id].queue, keep)]_vars

\* C24 witness: with the patterns "[", "^_", "^a$" configured, a name
\* change to the basename "a", which the pattern after the malformed one
\* matches, queued nothing.
C24_Witness ==
  /\ hasMalformed
  /\ last.op = "rename"
  /\ last.file \in Files
  /\ isNameChange(last.path, vault[last.file])
  /\ TFileBasename(vault[last.file]) = <<"a">>
  /\ RegExpTest(Re_a, TFileBasename(vault[last.file]))
  /\ last.queue = <<>>

\* the names of a sequence, each kept at its first occurrence under the case
\* policy
firstOccurrences(names) ==
  LET idx == {i \in 1..Len(names) :
                \A j \in 1..(i - 1) : policyForm(names[j]) # policyForm(names[i])}
      RECURSIVE build(_)
      build(i) == IF i > Len(names) THEN <<>>
                  ELSE IF i \in idx THEN <<names[i]>> \o build(i + 1)
                  ELSE build(i + 1)
  IN  build(1)

\* C25 (as stated): an aliases value that is not a list is left unchanged
\* when auto-create is off, and is replaced by the list of exactly the
\* surviving candidates when auto-create is on.
C25_NonListReplacedBySurvivors ==
  [][\A x \in inflight :
       (ProcessFrontMatter(x) /\ fm[x.file] = Scalar) =>
         /\ ~settings.autoCreateFrontmatter => fm' = fm
         /\ settings.autoCreateFrontmatter => fm'[x.file] = List(x.toAdd)]_vars

\* C25 (amended): an aliases value that is not a list is treated as an absent
\* key: unchanged when auto-create is off; when auto-create is on it is
\* replaced by the list of the surviving candidates, each kept once under
\* the case policy, and no other file's metadata changes.
C25_NonListAsAbsent ==
  [][\A x \in inflight :
       (ProcessFrontMatter(x) /\ fm[x.file] = Scalar) =>
         /\ IF frontMatterCallback(Absent, x.toAdd) = Absent
            THEN fm'[x.file] = fm[x.file]
            ELSE fm'[x.file] = frontMatterCallback(Absent, x.toAdd)
         /\ ~settings.autoCreateFrontmatter => fm' = fm
         /\ settings.autoCreateFrontmatter =>
              fm' = [fm EXCEPT ![x.file] = List(firstOccurrences(x.toAdd))]]_vars

\* C25 witness: after the one rename of the run, the settlement of f2, whose
\* aliases value was a scalar, replaced it by the list of the candidate,
\* auto-create being on; f1, whose key is absent, was left alone.
C25_Witness ==
  /\ renames = 1
  /\ last.op = "txn"
  /\ last.file = "f2"
  /\ settings.autoCreateFrontmatter
  /\ fm["f1"] = Absent
  /\ last.toAdd # <<>>
  /\ fm["f2"] = List(last.toAdd)

\* the candidate is dropped at settlement of the file: a valid ignore pattern
\* matches it, or it is the file's current basename under the case policy
droppedAtSettlement(name, file) ==
  \/ validMatch(name)
  \/ policyForm(name) = policyForm(TFileBasename(vault[file]))

\* C26: when the path resolves and every queued candidate is dropped at
\* settlement, the firing timer issues no processFrontMatter call and the
\* metadata of every file stays as it is.
C26_NothingSurvivesNoTransaction ==
  [][\A id \in DOMAIN timers :
       LET file == getFileByPath(timers[id].currentPath)
       IN  (/\ TimerFire(id)
            /\ file # NoFile
            /\ \A i \in 1..Len(timers[id].queue) :
                  droppedAtSettlement(timers[id].queue[i], file)) =>
             (inflight' = inflight /\ fm' = fm)]_vars

\* C26 witness: a timer fired on a queue of two or more candidates for a
\* file that exists, one candidate dropped by an ignore pattern and another
\* as the current basename; nothing survived and no call is pending.
C26_Witness ==
  /\ last.op = "fire"
  /\ last.file \in Files
  /\ Len(last.queue) >= 2
  /\ \E i \in 1..Len(last.queue) : validMatch(last.queue[i])
  /\ \E i \in 1..Len(last.queue) :
        /\ ~validMatch(last.queue[i])
        /\ policyForm(last.queue[i]) = policyForm(TFileBasename(vault[last.file]))
  /\ last.toAdd = <<>>
  /\ inflight = {}

\* the rejections of a rename event: untracked extension, neither a name nor
\* a folder change, out-of-scope name change, ignore-pattern match, folder
\* change with tracking off or its gate not met
rejectedClaimed(oldPath, newPath) ==
  \/ \A i \in 1..Len(settings.fileExtensions) :
        settings.fileExtensions[i] # TFileExtension(newPath)
  \/ /\ ~basenameChanges(oldPath, newPath)
     /\ getImmediateParentName(oldPath) = getImmediateParentName(newPath)
  \/ basenameChanges(oldPath, newPath) /\ ~inScopeClaimed(newPath)
  \/ /\ basenameChanges(oldPath, newPath)
     /\ \/ matchesAny(validIgnore, getBasename(oldPath))
        \/ matchesAny(validIgnore, TFileBasename(newPath))
  \/ /\ ~basenameChanges(oldPath, newPath)
     /\ getImmediateParentName(oldPath) # getImmediateParentName(newPath)
     /\ ~folderGatesClaimed(oldPath, newPath)

\* C27: a rejected rename event leaves the debounce map, with every
\* entry's queue, currentPath and timer handle, and every armed timer
\* unchanged; an entry keyed by the event's old path stays under that key
\* with its timer armed.
C27_RejectedRenameChangesNothing ==
  [][\A f \in Files, p \in PathsEdge :
       (loaded /\ RenameEdge(f, p)
          /\ (rejectedClaimed(vault[f], p) \/ ~accepted(vault[f], p))) =>
         /\ debounceMap' = debounceMap
         /\ timers' = timers
         /\ vault[f] \in DOMAIN debounceMap =>
              /\ vault[f] \in DOMAIN debounceMap'
              /\ p \notin DOMAIN debounceMap' \ DOMAIN debounceMap
              /\ debounceMap'[vault[f]].timeoutId \in DOMAIN timers
                   => debounceMap'[vault[f]].timeoutId \in DOMAIN timers']_vars

\* C27 witness: a file with a pending entry was renamed to a path with the
\* untracked extension "t"; the event was rejected and the entry is still
\* stored under the old path, its timer armed.
C27_Witness ==
  /\ loaded
  /\ last.op = "rename"
  /\ last.queue = <<>>
  /\ last.file \in Files
  /\ TFileExtension(vault[last.file]) = <<"t">>
  /\ last.path \in DOMAIN debounceMap
  /\ debounceMap[last.path].timeoutId \in DOMAIN timers
  /\ timers[debounceMap[last.path].timeoutId].file = last.file

\* C28: every alias a settlement appends to a file's list is a basename or
\* an immediate-parent-folder name that this same file had and left.
C28_AliasesFromOwnHistory ==
  [][\A x \in inflight :
       ProcessFrontMatter(x) =>
         \A i \in 1..Len(appended(x.file)) :
           appended(x.file)[i] \in formerNames[x.file]]_vars

\* the value a further run of the callback on the same candidates leaves
runAgain(value, names) ==
  IF throwsTypeError(value) THEN value ELSE frontMatterCallback(value, names)

\* C29: settlement is idempotent: a second run of the callback with the same
\* candidates and settings on the value the first run left gives that same
\* value.
C29_SettlementIdempotent ==
  [][\A x \in inflight :
       ProcessFrontMatter(x) => runAgain(fm'[x.file], x.toAdd) = fm'[x.file]]_vars

\* C29 witness: a settlement turned the scalar aliases value of f2 into a list
\* of two candidates; every candidate is now in the list under the case
\* policy, and a second run would add nothing.
C29_Witness ==
  /\ last.op = "txn"
  /\ last.file = "f2"
  /\ fm["f1"] = Absent
  /\ isArray(fm["f2"])
  /\ Len(fm["f2"].items) = 2
  /\ Len(last.toAdd) = 2
  /\ \A i \in 1..Len(last.toAdd) :
        \E j \in 1..Len(fm["f2"].items) :
          policyForm(fm["f2"].items[j]) = policyForm(last.toAdd[i])
  /\ frontMatterCallback(fm["f2"], last.toAdd) = fm["f2"]

\* C30: every pending entry's queue holds exactly one candidate and that
\* candidate is not the empty string; a rename whose candidate would be
\* empty (the old path's last segment is only an extension) enqueues
\* nothing and leaves the map and the timers as they are.
C30_QueuesHoldOneNonEmptyName ==
  /\ [](\A k \in DOMAIN debounceMap :
          /\ Len(debounceMap[k].queue) = 1
          /\ debounceMap[k].queue[1] # <<>>)
  /\ [](\A id \in DOMAIN timers :
          /\ Len(timers[id].queue) = 1
          /\ timers[id].queue[1] # <<>>)
  /\ [][\A f \in Files, p \in PathsEdge :
          (loaded /\ RenameEdge(f, p) /\ getBasename(vault[f]) = <<>>
             /\ isNameChange(vault[f], p)) =>
            (debounceMap' = debounceMap /\ timers' = timers /\ last'.queue = <<>>)]_vars

\* C30 witness: while an entry was pending, a file at ".md" was renamed to
\* a tracked, in-scope path whose basename no ignore pattern matches; the
\* candidate would have been the empty string and nothing was enqueued for
\* it.
C30_Witness ==
  /\ loaded
  /\ last.op = "rename"
  /\ last.path = P_dot
  /\ last.file \in Files
  /\ getBasename(last.path) = <<>>
  /\ TFileExtension(vault[last.file]) = s_md
  /\ isNameChange(last.path, vault[last.file])
  /\ inScopeClaimed(vault[last.file])
  /\ ~matchesAny(validIgnore, TFileBasename(vault[last.file]))
  /\ last.queue = <<>>
  /\ vault[last.file] \notin DOMAIN debounceMap
  /\ DOMAIN debounceMap # {}

====
